---------------------------- MODULE Spec2Model ----------------------------
(***************************************************************************)
(* A model of SWQA's two tool wrappers: cppcheck.py (CppCheckConfig and    *)
(* CppCheck) and clangformat.py (ClangFormatter).                          *)
(*                                                                         *)
(* A Python str is a sequence of one-character strings, so that join,      *)
(* format, split, strip, expandvars, commonprefix and relpath are computed *)
(* character by character as the library computes them.  A file is its     *)
(* text; the filesystem maps absolute paths to texts.                      *)
(***************************************************************************)
EXTENDS Integers, Sequences, FiniteSets, TLC

VARIABLES
    configurations,  \* CppCheck.configurations: name -> CppCheckConfig object
    version_,        \* CppCheck._version
    fs,              \* the files on disk: absolute path -> text
    dirs,            \* the directories os.makedirs has created
    ret,             \* how the last CppCheck / CppCheckConfig call ended
    lastRun,         \* the last analyzer run CppCheck.execute completed
    formatter,       \* the ClangFormatter object (its config), once constructed
    pc,              \* ClangFormatter.execute: position in the method
    idx,             \* ClangFormatter.execute: index into the list being looped over
    invoked,         \* ClangFormatter.execute: the shell invocations of this call
    result           \* ClangFormatter.execute: the returned value

cppVars == <<configurations, version_, fs, dirs, ret, lastRun>>
clangVars == <<formatter, pc, idx, invoked, result>>
vars == <<configurations, version_, fs, dirs, ret, lastRun,
          formatter, pc, idx, invoked, result>>

(***************************************************************************)
(* Bounds of the model.                                                    *)
(***************************************************************************)
MaxSuppressions == 2
MaxFiles == 2
MaxDirectories == 2

(***************************************************************************)
(* Python str and list primitives.                                         *)
(***************************************************************************)
Digits == <<"0", "1", "2", "3", "4", "5", "6", "7", "8", "9">>

WordChars ==
    {"a", "b", "c", "d", "e", "f", "g", "h", "i", "j", "k", "l", "m",
     "n", "o", "p", "q", "r", "s", "t", "u", "v", "w", "x", "y", "z",
     "A", "B", "C", "D", "E", "F", "G", "H", "I", "J", "K", "L", "M",
     "N", "O", "P", "Q", "R", "S", "T", "U", "V", "W", "X", "Y", "Z",
     "0", "1", "2", "3", "4", "5", "6", "7", "8", "9", "_"}

Whitespace == {" ", "\n", "\t"}

\* sep.join(items)
RECURSIVE Join(_, _)
Join(sep, items) ==
    IF items = <<>> THEN <<>>
    ELSE IF Len(items) = 1 THEN items[1]
    ELSE items[1] \o sep \o Join(sep, Tail(items))

\* str(n) for an int n >= 0
RECURSIVE FormatInt(_)
FormatInt(n) ==
    IF n < 10 THEN <<Digits[n + 1]>>
    ELSE FormatInt(n \div 10) \o <<Digits[(n % 10) + 1]>>

\* A JSON scalar that is a number or a string.
IntVal(n) == [int |-> TRUE, n |-> n, s |-> <<>>]
StrVal(s) == [int |-> FALSE, n |-> 0, s |-> s]

\* '{}'.format(v)
Format(v) == IF v.int THEN FormatInt(v.n) ELSE v.s

\* A JSON value that may be null.
None == [isNone |-> TRUE, v |-> <<>>]
Some(v) == [isNone |-> FALSE, v |-> v]

\* Python truth of a str-or-None / list-or-None value
Truthy(o) == ~o.isNone /\ o.v # <<>>

StartsWith(s, p) == Len(s) >= Len(p) /\ SubSeq(s, 1, Len(p)) = p

Drop(s, n) == SubSeq(s, n + 1, Len(s))

\* s.split(sep, 1)[0]: the text before the first occurrence of sep
RECURSIVE SplitFirst(_, _)
SplitFirst(s, sep) ==
    IF s = <<>> \/ StartsWith(s, sep) THEN <<>>
    ELSE <<s[1]>> \o SplitFirst(Tail(s), sep)

RECURSIVE LStrip(_, _)
LStrip(s, cs) ==
    IF s # <<>> /\ s[1] \in cs THEN LStrip(Tail(s), cs) ELSE s

RECURSIVE RStrip(_, _)
RStrip(s, cs) ==
    IF s # <<>> /\ s[Len(s)] \in cs THEN RStrip(SubSeq(s, 1, Len(s) - 1), cs) ELSE s

\* s.strip(chars); s.strip() when cs is Whitespace
Strip(s, cs) == RStrip(LStrip(s, cs), cs)

\* s.split(c) for a one-character separator c
RECURSIVE SplitOn(_, _)
SplitOn(s, c) ==
    LET head == SplitFirst(s, <<c>>)
    IN  IF Len(head) = Len(s) THEN <<s>>
        ELSE <<head>> \o SplitOn(Drop(s, Len(head) + 1), c)

\* length of the longest common prefix of two sequences
RECURSIVE CommonLen(_, _)
CommonLen(a, b) ==
    IF a = <<>> \/ b = <<>> THEN 0
    ELSE IF a[1] = b[1] THEN 1 + CommonLen(Tail(a), Tail(b))
    ELSE 0

(***************************************************************************)
(* os.path (posixpath) and os.environ.                                     *)
(***************************************************************************)
Cwd == <<"/", "w">>

Environ == (<<"S", "R", "C">> :> <<"/", "w", "/", "s", "r", "c">>)

\* length of the longest prefix of s made of \w characters
RECURSIVE NameLen(_)
NameLen(s) ==
    IF s # <<>> /\ s[1] \in WordChars THEN 1 + NameLen(Tail(s)) ELSE 0

\* os.path.expandvars: $name and ${name} are replaced when name is set
RECURSIVE ExpandVars(_)
ExpandVars(s) ==
    IF s = <<>> THEN <<>>
    ELSE IF s[1] # "$" THEN <<s[1]>> \o ExpandVars(Tail(s))
    ELSE
        LET rest == Tail(s)
            braced == rest # <<>> /\ rest[1] = "{"
            inner == IF braced THEN SplitFirst(Tail(rest), <<"}">>) ELSE <<>>
            closed == braced /\ Len(inner) < Len(rest) - 1
            name == IF closed THEN inner ELSE SubSeq(rest, 1, NameLen(rest))
            used == IF closed THEN Len(inner) + 2 ELSE Len(name)
        IN  IF used = 0 THEN <<"$">> \o ExpandVars(rest)
            ELSE (IF name \in DOMAIN Environ THEN Environ[name]
                                               ELSE <<"$">> \o SubSeq(rest, 1, used))
                 \o ExpandVars(Drop(rest, used))

\* os.path.join(a, b)
PathJoin(a, b) ==
    IF StartsWith(b, <<"/">>) THEN b
    ELSE IF a = <<>> \/ a[Len(a)] = "/" THEN a \o b
    ELSE a \o <<"/">> \o b

\* the components normpath keeps: no empty or '.' ones, '..' removes its parent
RECURSIVE Normalize(_, _)
Normalize(done, todo) ==
    IF todo = <<>> THEN done
    ELSE IF todo[1] = <<>> \/ todo[1] = <<".">> THEN Normalize(done, Tail(todo))
    ELSE IF todo[1] = <<".", ".">> THEN
        Normalize(IF done = <<>> THEN <<>> ELSE SubSeq(done, 1, Len(done) - 1), Tail(todo))
    ELSE Normalize(Append(done, todo[1]), Tail(todo))

\* the components of os.path.abspath(p)
AbsParts(p) ==
    Normalize(<<>>, SplitOn(IF StartsWith(p, <<"/">>) THEN p ELSE PathJoin(Cwd, p), "/"))

\* os.path.abspath(p)
AbsPath(p) == <<"/">> \o Join(<<"/">>, AbsParts(p))

\* os.path.commonprefix([a, b]): character by character
CommonPrefix(a, b) == SubSeq(a, 1, CommonLen(a, b))

\* os.path.relpath(path, start)
RelPath(path, start) ==
    LET start_list == AbsParts(start)
        path_list == AbsParts(path)
        i == CommonLen(start_list, path_list)
        rel_list == [k \in 1..(Len(start_list) - i) |-> <<".", ".">>] \o Drop(path_list, i)
    IN  IF rel_list = <<>> THEN <<".">> ELSE Join(<<"/">>, rel_list)

\* os.path.isfile(p)
IsFile(disk, p) == p # <<>> /\ AbsPath(p) \in DOMAIN disk

\* with open(path, 'a') as f: f.write(text): the text is added to the file
WriteFile_Append(disk, path, text) ==
    LET p == AbsPath(path)
    IN  [q \in DOMAIN disk \cup {p} |->
            IF q # p THEN disk[q] ELSE IF p \in DOMAIN disk THEN disk[p] \o text ELSE text]

\* with open(path, 'w') as f: f.write(text)
WriteFile(disk, path, text) ==
    LET p == AbsPath(path)
    IN  [q \in DOMAIN disk \cup {p} |-> IF q = p THEN text ELSE disk[q]]

(***************************************************************************)
(* CppCheckConfig (cppcheck.py).  An object c is                           *)
(* [name, raw, results_dir, cpp_working_dir]; raw is the JSON dictionary.  *)
(***************************************************************************)
\* CppCheckConfig.__init__
NewConfig(name, config) ==
    [name |-> name, raw |-> config, results_dir |-> <<>>, cpp_working_dir |-> <<>>]

\* ['<flag>{}'.format(x) for x in items]
Flagged(flag, items) == [k \in 1..Len(items) |-> flag \o items[k]]

files(c) == Join(<<" ">>, c.raw.files)

directories(c) == Join(<<" ">>, c.raw.directories)

includes(c) == Join(<<" ">>, Flagged(<<"-", "I">>, c.raw.includes))

excludes(c) == Join(<<" ">>, Flagged(<<"-", "i">>, c.raw.excludes))

defines(c) == Strip(Join(<<" ">>, Flagged(<<"-", "D">>, c.raw.defines)), Whitespace)

un_defines(c) == Join(<<" ">>, Flagged(<<"-", "i">>, c.raw.un_defines))

message_level(c) == <<"-", "-", "e", "n", "a", "b", "l", "e", "=">> \o Strip(Join(<<",">>, c.raw.message_level), Whitespace)

add_ons(c) == c.raw.add_ons

\* the thread count without its flag
threads_NoFlag(c) == Format(c.raw.threads)

threads(c) == <<"-", "j", " ">> \o Format(c.raw.threads)

output_format(c) ==
    IF Truthy(c.raw.output_template)
    THEN <<"-", "-", "t", "e", "m", "p", "l", "a", "t", "e", "=", "\"">> \o c.raw.output_template.v \o <<"\"">>
    ELSE <<"-", "-", "t", "e", "m", "p", "l", "a", "t", "e", "=", "\"">> \o c.raw.output_format \o <<"\"">>

output_dir(c) == c.raw.output_dir

options(c) == Join(<<" ">>, c.raw.options)

standard(c) == <<"-", "-", "s", "t", "d", "=">> \o c.raw.standard

platform(c) == <<"-", "-", "p", "l", "a", "t", "f", "o", "r", "m", "=">> \o c.raw.platform

error_exit_code(c) == <<"-", "-", "e", "r", "r", "o", "r", "-", "e", "x", "i", "t", "c", "o", "d", "e", "=">> \o Format(c.raw.on_error_exit_code)

\* the cpp_working_dir setter, without its os.makedirs
BindWorkingDir(c, val) ==
    [c EXCEPT !.cpp_working_dir = val,
              !.results_dir = PathJoin(PathJoin(val, output_dir(c)), c.name)]

\* the suppression line of one entry, filename already expanded
SuppressionLine(item, filename) ==
    LET output_string == Format(item.error_id) \o <<":">> \o filename \o <<":">> \o Format(item.line)
    IN  Strip(SplitFirst(output_string, <<":", ":">>), {":"})

\* the entry's two lines ended by one newline each
EntryText_NoBlankLine(item, filename) ==
    <<"/", "/", " ">> \o item.comment \o <<"\n">> \o SuppressionLine(item, filename) \o <<"\n">>

\* the two f.write calls of one entry
EntryText(item, filename) ==
    <<"/", "/", " ">> \o item.comment \o <<"\n">> \o SuppressionLine(item, filename) \o <<"\n", "\n">>

\* the for loop of generate_suppression_list: the text written to f, and
\* whether the loop raised RuntimeError("Invalid path: ...")
RECURSIVE WriteEntries(_, _, _)
WriteEntries(disk, items, text) ==
    IF items = <<>> THEN [raised |-> FALSE, text |-> text]
    ELSE
        LET filename == ExpandVars(items[1].filename)
        IN  IF ~IsFile(disk, filename) THEN [raised |-> TRUE, text |-> text]
            ELSE WriteEntries(disk, Tail(items), text \o EntryText(items[1], filename))

\* CppCheckConfig.generate_suppression_list: how it ends, what it returns and
\* the files it leaves.  With nothing to suppress act_out_file is still None
\* at the return statement, and os.path.commonprefix([cwd, None]) raises.
generate_suppression_list(c, disk) ==
    LET config_suppression == c.raw.suppression
        act_out_file == PathJoin(c.results_dir, c.name \o <<"_", "s", "u", "p", "p", "r", "e", "s", "s", "i", "o", "n", "_", "l", "i", "s", "t", ".", "t", "x", "t">>)
        opened == WriteFile(disk, act_out_file, <<>>)
        w == WriteEntries(opened, config_suppression.v, <<>>)
    IN  IF ~Truthy(config_suppression) THEN
            [status |-> "raised", exc |-> "TypeError", value |-> None, fs |-> disk]
        ELSE IF w.raised THEN
            [status |-> "raised", exc |-> "RuntimeError", value |-> None,
             fs |-> WriteFile(disk, act_out_file, w.text)]
        ELSE
            [status |-> "returned", exc |-> "",
             value |-> Some(RelPath(act_out_file, CommonPrefix(Cwd, act_out_file))),
             fs |-> WriteFile(disk, act_out_file, w.text)]

\* build_command with --dump prepended before the suppression list is
AssembleCommand_DumpFirst(c, suppression_list) ==
    LET command == Join(<<" ">>, <<threads(c), output_format(c), message_level(c),
                                defines(c), un_defines(c), standard(c), platform(c),
                                error_exit_code(c), includes(c), excludes(c),
                                directories(c), files(c)>>)
        with_dump == IF add_ons(c) THEN Join(<<" ">>, <<<<"-", "-", "d", "u", "m", "p">>, command>>) ELSE command
        with_list == IF Truthy(suppression_list)
                     THEN Join(<<" ">>, <<<<"-", "-", "s", "u", "p", "p", "r", "e", "s", "s", "i", "o", "n", "s", "-", "l", "i", "s", "t", "=">> \o suppression_list.v, with_dump>>)
                     ELSE with_dump
    IN  IF options(c) # <<>> THEN Join(<<" ">>, <<options(c), with_list>>) ELSE with_list

\* build_command's string, given what generate_suppression_list returned
AssembleCommand(c, suppression_list) ==
    LET command == Join(<<" ">>, <<threads(c), output_format(c), message_level(c),
                                defines(c), un_defines(c), standard(c), platform(c),
                                error_exit_code(c), includes(c), excludes(c),
                                directories(c), files(c)>>)
        with_list == IF Truthy(suppression_list)
                     THEN Join(<<" ">>, <<<<"-", "-", "s", "u", "p", "p", "r", "e", "s", "s", "i", "o", "n", "s", "-", "l", "i", "s", "t", "=">> \o suppression_list.v, command>>)
                     ELSE command
        with_dump == IF add_ons(c) THEN Join(<<" ">>, <<<<"-", "-", "d", "u", "m", "p">>, with_list>>) ELSE with_list
    IN  IF options(c) # <<>> THEN Join(<<" ">>, <<options(c), with_dump>>) ELSE with_dump

\* CppCheckConfig.build_command
build_command(c, disk) ==
    LET g == generate_suppression_list(c, disk)
    IN  IF g.status = "raised" THEN g
        ELSE [g EXCEPT !.value = Some(AssembleCommand(c, g.value))]

(***************************************************************************)
(* The configurations a JSON file may hold, and the tool's behaviours.     *)
(***************************************************************************)
ConfigName == <<"n">>

SourceFile == <<"/", "w", "/", "s", "r", "c", "/", "a", ".", "c", "p", "p">>

\* an entry whose file exists (through $SRC)
Located == [error_id |-> StrVal(<<"n", "u", "l", "l", "P", "o", "i", "n", "t", "e", "r">>), filename |-> <<"$", "S", "R", "C", "/", "a", ".", "c", "p", "p">>,
            line |-> IntVal(42), comment |-> <<"x">>]
\* an entry whose file exists and whose line is left blank
Unlined == [error_id |-> StrVal(<<"u", "n", "i", "n", "i", "t", "v", "a", "r">>), filename |-> <<"/", "w", "/", "s", "r", "c", "/", "a", ".", "c", "p", "p">>,
            line |-> StrVal(<<>>), comment |-> <<"z">>]
\* an entry whose file is missing
Missing == [error_id |-> StrVal(<<"m", "e", "m", "l", "e", "a", "k">>), filename |-> <<"/", "w", "/", "s", "r", "c", "/", "g", "o", "n", "e", ".", "c", "p", "p">>,
            line |-> IntVal(7), comment |-> <<"y">>]
\* an entry with no file: meant to suppress the error everywhere
Global == [error_id |-> StrVal(<<"u", "n", "u", "s", "e", "d", "F", "u", "n", "c", "t", "i", "o", "n">>), filename |-> <<>>,
           line |-> StrVal(<<>>), comment |-> <<"g">>]

Entries == {Located, Missing, Global}

RECURSIVE ListsUpTo(_, _)
ListsUpTo(S, n) ==
    IF n = 0 THEN {<<>>}
    ELSE LET shorter == ListsUpTo(S, n - 1)
         IN  shorter \cup {Append(l, x) : l \in shorter, x \in S}

BaseConfig ==
    [threads |-> IntVal(2), output_format |-> <<"g", "c", "c">>, output_template |-> None,
     message_level |-> <<<<"w", "a", "r", "n", "i", "n", "g">>, <<"s", "t", "y", "l", "e">>>>, defines |-> <<<<"A">>>>,
     un_defines |-> <<<<"U">>>>, standard |-> <<"c", "1", "1">>, platform |-> <<"u", "n", "i", "x", "6", "4">>,
     on_error_exit_code |-> IntVal(1), includes |-> <<<<"i", "n", "c">>>>, excludes |-> <<<<"e", "x">>>>,
     directories |-> <<<<"l", "i", "b">>>>, files |-> <<<<"a", ".", "c", "p", "p">>>>,
     suppression |-> Some(<<Located>>), add_ons |-> FALSE, options |-> <<>>,
     output_dir |-> <<"o">>]

\* every suppression list up to the bound, null, and a blank line number
SuppressionConfigs ==
    {[BaseConfig EXCEPT !.suppression = s] :
        s \in {None, Some(<<Unlined>>), Some(<<Located, Unlined>>)}
              \cup {Some(l) : l \in ListsUpTo(Entries, MaxSuppressions)}}

\* the fields build_command renders, each in a few shapes
CommandConfigs ==
    {[BaseConfig EXCEPT !.options = o, !.add_ons = a, !.defines = d] :
        o \in {<<>>, <<<<"-", "q">>>>, <<<<"-", "j", " ", "4">>, <<"-", "-", "i", "n", "l", "i", "n", "e", "-", "s", "u", "p", "p", "r">>>>},
        a \in BOOLEAN,
        d \in {<<>>, <<<<"A">>, <<"B", "=", "1", " ", "-", "j">>>>}}
    \cup {[BaseConfig EXCEPT !.threads = IntVal(12), !.output_template = Some(<<"{", "f", "i", "l", "e", "}">>),
                             !.files = <<>>, !.directories = <<<<"l", "i", "b">>, <<"-", "j">>>>]}

CppConfigs == SuppressionConfigs \cup CommandConfigs

WorkingDirs == {<<"/", "w", "/", "p">>}
ConfigArgs == {ConfigName, <<"o", "t", "h", "e", "r">>}
\* what a run of the tool may do: exit code, stdout, stderr
Run(rc, out, err) == [rc |-> rc, out |-> out, err |-> err]
AnalyzerRuns == {Run(0, <<"O", "K">>, <<>>), Run(1, <<"C", "h", "e", "c", "k", "i", "n", "g", " ", "a", ".", "c", "p", "p">>, <<"a", ".", "c", "p", "p", ":", "1", ":", " ", "e", "r", "r", "o", "r">>),
                 Run(0, <<>>, <<"E">>)}
VersionRuns == {Run(0, <<>>, <<>>), Run(0, <<"C", "p", "p", "c", "h", "e", "c", "k", " ", "1", ".", "9">>, <<>>), Run(1, <<>>, <<"n", "o", "t", " ", "f", "o", "u", "n", "d">>)}

(***************************************************************************)
(* CppCheck (cppcheck.py).                                                 *)
(***************************************************************************)
CppcheckExe == <<"c", "p", "p", "c", "h", "e", "c", "k">>

\* how a call ended: op, returned or raised, the exception, the str or int
\* returned, the number of processes it started and the stdout it read
Outcome(op, status, exc, value, code, procs, stdout) ==
    [op |-> op, status |-> status, exc |-> exc, value |-> value,
     code |-> code, procs |-> procs, stdout |-> stdout]

NoRun == [ran |-> FALSE, command |-> <<>>, rc |-> 0, out |-> <<>>, err |-> <<>>,
          replaced |-> FALSE]

LogFile(c) == PathJoin(c.results_dir, c.name \o <<"_", "l", "o", "g", ".", "t", "x", "t">>)
ErrFile(c) == PathJoin(c.results_dir, c.name \o <<"_", "e", "r", "r", ".", "t", "x", "t">>)

\* CppCheck.__init__ ; no ClangFormatter constructed yet
Init ==
    /\ configurations = <<>>
    /\ version_ = <<"u", "n", "k", "n", "o", "w", "n">>
    /\ fs = (SourceFile :> <<>>)
    /\ dirs = {}
    /\ ret = Outcome("none", "returned", "", None, 0, 0, <<>>)
    /\ lastRun = NoRun
    /\ formatter = [constructed |-> FALSE, files |-> <<>>, directories |-> <<>>]
    /\ pc = "idle"
    /\ idx = 0
    /\ invoked = <<>>
    /\ result = 0

\* CppCheck.load_config on a file holding one configuration; the program
\* loads its configuration file once, when it starts
LoadConfig(raw) ==
    /\ DOMAIN configurations = {}
    /\ configurations' = (ConfigName :> NewConfig(ConfigName, raw))
    /\ ret' = Outcome("load_config", "returned", "", None, 0, 0, <<>>)
    /\ UNCHANGED <<version_, fs, dirs, lastRun, clangVars>>

\* CppCheckConfig.generate_suppression_list called on a loaded configuration
GenerateSuppressionList ==
    /\ ConfigName \in DOMAIN configurations
    /\ LET g == generate_suppression_list(configurations[ConfigName], fs)
       IN  /\ fs' = g.fs
           /\ ret' = Outcome("generate_suppression_list", g.status, g.exc, g.value, 0, 0, <<>>)
    /\ UNCHANGED <<configurations, version_, dirs, lastRun, clangVars>>

\* CppCheckConfig.build_command called on a loaded configuration
BuildCommand ==
    /\ ConfigName \in DOMAIN configurations
    /\ LET b == build_command(configurations[ConfigName], fs)
       IN  /\ fs' = b.fs
           /\ ret' = Outcome("build_command", b.status, b.exc, b.value, 0, 0, <<>>)
    /\ UNCHANGED <<configurations, version_, dirs, lastRun, clangVars>>

\* execute starting the analyzer before build_command has checked the
\* suppression entries
Execute_AnalyzerFirst(config, working_dir, run) ==
    IF config \notin DOMAIN configurations THEN
        /\ ret' = Outcome("execute", "returned", "", None, 0, 0, <<>>)
        /\ UNCHANGED <<configurations, version_, fs, dirs, lastRun, clangVars>>
    ELSE
        LET cfg == BindWorkingDir(configurations[config], working_dir)
            b == build_command(cfg, fs)
            full_command == CppcheckExe \o <<" ">> \o b.value.v
            logged == WriteFile(WriteFile(b.fs, LogFile(cfg), run.out), ErrFile(cfg), run.err)
        IN  /\ configurations' = [configurations EXCEPT ![config] = cfg]
            /\ dirs' = dirs \cup {cfg.results_dir}
            /\ IF b.status = "raised" THEN
                   /\ fs' = b.fs
                   /\ ret' = Outcome("execute", "raised", b.exc, None, 0, 1, run.out)
                   /\ lastRun' = lastRun
               ELSE
                   /\ fs' = logged
                   /\ ret' = Outcome("execute", "returned", "", None, run.rc, 1, run.out)
                   /\ lastRun' = [ran |-> TRUE, command |-> full_command, rc |-> run.rc,
                                  out |-> run.out, err |-> run.err,
                                  replaced |-> /\ IsFile(fs, LogFile(cfg))
                                               /\ fs[AbsPath(LogFile(cfg))] # run.out]
            /\ UNCHANGED <<version_, clangVars>>

\* CppCheck.execute(config, working_dir); the analyzer, if started, does run
Execute(config, working_dir, run) ==
    IF config \notin DOMAIN configurations THEN
        /\ ret' = Outcome("execute", "returned", "", None, 0, 0, <<>>)
        /\ UNCHANGED <<configurations, version_, fs, dirs, lastRun, clangVars>>
    ELSE
        LET cfg == BindWorkingDir(configurations[config], working_dir)
            b == build_command(cfg, fs)
            full_command == CppcheckExe \o <<" ">> \o b.value.v
            logged == WriteFile(WriteFile(b.fs, LogFile(cfg), run.out), ErrFile(cfg), run.err)
        IN  /\ configurations' = [configurations EXCEPT ![config] = cfg]
            /\ dirs' = dirs \cup {cfg.results_dir}
            /\ IF b.status = "raised" THEN
                   /\ fs' = b.fs
                   /\ ret' = Outcome("execute", "raised", b.exc, None, 0, 0, <<>>)
                   /\ lastRun' = lastRun
               ELSE
                   /\ fs' = logged
                   /\ ret' = Outcome("execute", "returned", "", None, run.rc, 1, run.out)
                   /\ lastRun' = [ran |-> TRUE, command |-> full_command, rc |-> run.rc,
                                  out |-> run.out, err |-> run.err,
                                  replaced |-> /\ IsFile(fs, LogFile(cfg))
                                               /\ fs[AbsPath(LogFile(cfg))] # run.out]
            /\ UNCHANGED <<version_, clangVars>>

\* reading CppCheck.version; the tool answers --version as run says.
\* cppcheck() returns three values and the property unpacks two.
Version(run) ==
    LET answer == <<run.rc, run.out, run.err>>
        cmd_output == answer[2]
    IN  /\ IF Len(answer) # 2 THEN
               /\ ret' = Outcome("version", "raised", "ValueError", None, 0, 1, cmd_output)
               /\ version_' = version_
           ELSE IF cmd_output # <<>> THEN
               \* cmd_output[0] is one character: its split() has no [1]
               /\ ret' = Outcome("version", "raised", "IndexError", None, 0, 1, cmd_output)
               /\ version_' = version_
           ELSE
               /\ ret' = Outcome("version", "returned", "", Some(<<"u", "n", "k", "n", "o", "w", "n">>), 0, 1, cmd_output)
               /\ version_' = <<"u", "n", "k", "n", "o", "w", "n">>
        /\ UNCHANGED <<configurations, fs, dirs, lastRun, clangVars>>

NextCppCheck ==
    \/ \E raw \in CppConfigs : LoadConfig(raw)
    \/ GenerateSuppressionList
    \/ BuildCommand
    \/ \E config \in ConfigArgs, working_dir \in WorkingDirs, run \in AnalyzerRuns :
          Execute(config, working_dir, run)
    \/ \E run \in VersionRuns : Version(run)

SpecCppCheck == Init /\ [][NextCppCheck]_vars


(***************************************************************************)
(* ClangFormatter (clangformat.py).                                        *)
(***************************************************************************)
SourceTree == [path |-> <<".", ".", "/", "s", "r", "c">>, recursive |-> TRUE, extensions |-> <<<<"*", ".", "h", "p", "p">>, <<"*", ".", "c", "p", "p">>>>]

\* the project files ClangFormatConfig.__init__ may read
FormatConfigs ==
    {[constructed |-> TRUE, files |-> f, directories |-> d] :
        f \in ListsUpTo({<<"a", ".", "c", "p", "p">>, <<"b", ".", "c", "p", "p">>}, MaxFiles),
        d \in ListsUpTo({SourceTree}, MaxDirectories)}

FormatterRuns == {Run(0, <<>>, <<>>), Run(1, <<>>, <<>>), Run(0, <<>>, <<"w", "a", "r", "n", "i", "n", "g">>),
                  Run(2, <<>>, <<"e", "r", "r", "o", "r">>)}

\* one _execute_shell_cmd call of execute: which list entry it formatted and
\* what the process answered
Invocation(kind, index, item, run) ==
    [kind |-> kind, index |-> index, item |-> item, rc |-> run.rc, stderr |-> run.err]

\* ClangFormatter.__init__
Construct(config) ==
    /\ ~formatter.constructed
    /\ formatter' = config
    /\ UNCHANGED <<pc, idx, invoked, result, cppVars>>

\* a call of ClangFormatter.execute begins
ExecuteStart ==
    /\ formatter.constructed
    /\ pc \in {"idle", "returned"}
    /\ pc' = "files"
    /\ idx' = 1
    /\ invoked' = <<>>
    /\ result' = 0
    /\ UNCHANGED <<formatter, cppVars>>

\* one pass of the files loop that prints stderr and goes on to the next file
InvokeFile_KeepGoing(run) ==
    /\ pc = "files"
    /\ idx <= Len(formatter.files)
    /\ invoked' = Append(invoked, Invocation("file", idx, formatter.files[idx], run))
    /\ idx' = idx + 1
    /\ UNCHANGED <<pc, result, formatter, cppVars>>

\* one pass of `for file in self.config.files`
InvokeFile(run) ==
    /\ pc = "files"
    /\ idx <= Len(formatter.files)
    /\ invoked' = Append(invoked, Invocation("file", idx, formatter.files[idx], run))
    /\ IF run.err # <<>>
       THEN /\ pc' = "returned"
            /\ result' = run.rc
            /\ idx' = idx
       ELSE /\ idx' = idx + 1
            /\ UNCHANGED <<pc, result>>
    /\ UNCHANGED <<formatter, cppVars>>

\* the files loop ends and the directories loop begins
FilesDone ==
    /\ pc = "files"
    /\ idx > Len(formatter.files)
    /\ pc' = "directories"
    /\ idx' = 1
    /\ UNCHANGED <<formatter, invoked, result, cppVars>>

\* one pass of `for directory in self.config.directories`
InvokeDirectory(run) ==
    /\ pc = "directories"
    /\ idx <= Len(formatter.directories)
    /\ invoked' = Append(invoked, Invocation("directory", idx, formatter.directories[idx].path, run))
    /\ IF run.err # <<>>
       THEN /\ pc' = "returned"
            /\ result' = run.rc
            /\ idx' = idx
       ELSE /\ idx' = idx + 1
            /\ UNCHANGED <<pc, result>>
    /\ UNCHANGED <<formatter, cppVars>>

\* the final `return 0`
ReturnZero ==
    /\ pc = "directories"
    /\ idx > Len(formatter.directories)
    /\ pc' = "returned"
    /\ result' = 0
    /\ UNCHANGED <<formatter, idx, invoked, cppVars>>

NextClangFormat ==
    \/ \E config \in FormatConfigs : Construct(config)
    \/ ExecuteStart
    \/ \E run \in FormatterRuns : InvokeFile(run)
    \/ FilesDone
    \/ \E run \in FormatterRuns : InvokeDirectory(run)
    \/ ReturnZero

SpecClangFormat == Init /\ [][NextClangFormat]_vars


(***************************************************************************)
(* The properties checked.                                                 *)
(***************************************************************************)
\* the loaded configuration object
Loaded == ConfigName \in DOMAIN configurations
TheConfig == configurations[ConfigName]
Suppressions == TheConfig.raw.suppression

\* s.split(): the maximal runs of non-whitespace characters
RECURSIVE Tokens(_)
Tokens(s) ==
    LET t == LStrip(s, Whitespace)
        n == IF t = <<>> THEN 0
             ELSE CHOOSE k \in 1..Len(t) :
                    /\ \A i \in 1..k : t[i] \notin Whitespace
                    /\ k = Len(t) \/ t[k + 1] \in Whitespace
    IN  IF t = <<>> THEN <<>> ELSE <<SubSeq(t, 1, n)>> \o Tokens(Drop(t, n))

\* the number of tokens of s that are a -j flag
CountJ(s) == Cardinality({k \in 1..Len(Tokens(s)) : StartsWith(Tokens(s)[k], <<"-", "j">>)})

Contains(s, sub) == \E i \in 0..(Len(s) - Len(sub)) : SubSeq(s, i + 1, i + Len(sub)) = sub

\* the lines of a text
Lines(text) ==
    LET parts == SplitOn(text, "\n")
    IN  IF parts[Len(parts)] = <<>> THEN SubSeq(parts, 1, Len(parts) - 1) ELSE parts

SuppressionFile == AbsPath(PathJoin(TheConfig.results_dir, <<"n", "_", "s", "u", "p", "p", "r", "e", "s", "s", "i", "o", "n", "_", "l", "i", "s", "t", ".", "t", "x", "t">>))

BuildReturned == Loaded /\ ret.op = "build_command" /\ ret.status = "returned"
GenerateReturned == Loaded /\ ret.op = "generate_suppression_list" /\ ret.status = "returned"

FlagOrEmpty(flag, fragment) == fragment = <<>> \/ StartsWith(fragment, flag)

\* the fragments the command is to list, left to right
OrderedFragments(c) ==
    (IF c.raw.options # <<>> /\ Join(<<" ">>, c.raw.options) # <<>>
        THEN <<Join(<<" ">>, c.raw.options)>> ELSE <<>>)
    \o (IF c.raw.add_ons THEN <<<<"-", "-", "d", "u", "m", "p">>>> ELSE <<>>)
    \o (IF Truthy(c.raw.suppression)
        THEN <<<<"-", "-", "s", "u", "p", "p", "r", "e", "s", "s", "i", "o", "n", "s", "-", "l", "i", "s", "t", "=">>
               \o RelPath(PathJoin(c.results_dir, <<"n", "_", "s", "u", "p", "p", "r", "e", "s", "s", "i", "o", "n", "_", "l", "i", "s", "t", ".", "t", "x", "t">>), Cwd)>>
        ELSE <<>>)
    \o <<threads(c), output_format(c), message_level(c), defines(c), un_defines(c),
         standard(c), platform(c), error_exit_code(c), includes(c), excludes(c),
         directories(c), files(c)>>

\* C1: the string build_command returns is its fragments joined by single
\* spaces in the order options, --dump, --suppressions-list=<path>, -j N,
\* template, --enable=, -D defines, un-defines, --std=, --platform=,
\* --error-exitcode=, -I includes, -i excludes, directories, files; each
\* fragment carries the flag the order names.
C1_FragmentsInFixedOrder ==
    BuildReturned =>
        /\ ret.value.v = Join(<<" ">>, OrderedFragments(TheConfig))
        /\ threads(TheConfig) = <<"-", "j", " ">> \o FormatInt(TheConfig.raw.threads.n)
        /\ StartsWith(output_format(TheConfig), <<"-", "-", "t", "e", "m", "p", "l", "a", "t", "e", "=">>)
        /\ StartsWith(message_level(TheConfig), <<"-", "-", "e", "n", "a", "b", "l", "e", "=">>)
        /\ FlagOrEmpty(<<"-", "D">>, defines(TheConfig))
        /\ FlagOrEmpty(<<"-", "i">>, un_defines(TheConfig))
        /\ StartsWith(standard(TheConfig), <<"-", "-", "s", "t", "d", "=">>)
        /\ StartsWith(platform(TheConfig), <<"-", "-", "p", "l", "a", "t", "f", "o", "r", "m", "=">>)
        /\ StartsWith(error_exit_code(TheConfig), <<"-", "-", "e", "r", "r", "o", "r", "-", "e", "x", "i", "t", "c", "o", "d", "e", "=">>)
        /\ FlagOrEmpty(<<"-", "I">>, includes(TheConfig))
        /\ FlagOrEmpty(<<"-", "i">>, excludes(TheConfig))

\* C1 witness: a command that carries all three optional prefixes was built
C1_AllPrefixesBuilt ==
    /\ BuildReturned
    /\ TheConfig.raw.options # <<>>
    /\ TheConfig.raw.add_ons
    /\ Truthy(Suppressions)
    /\ Contains(ret.value.v, <<"-", "-", "d", "u", "m", "p", " ", "-", "-", "s", "u", "p", "p", "r", "e", "s", "s", "i", "o", "n", "s", "-", "l", "i", "s", "t", "=">>)

\* C2 as stated: whatever the configuration holds, the command build_command
\* returns has exactly one -j flag.
C2_ExactlyOneJFlag == BuildReturned => CountJ(ret.value.v) = 1

\* the -j tokens the configuration's own text brings into the command
SuppliedJ(c) ==
    CountJ(options(c)) + CountJ(output_format(c)) + CountJ(message_level(c))
    + CountJ(defines(c)) + CountJ(un_defines(c)) + CountJ(standard(c))
    + CountJ(platform(c)) + CountJ(error_exit_code(c)) + CountJ(includes(c))
    + CountJ(excludes(c)) + CountJ(directories(c)) + CountJ(files(c))
    + CountJ(RelPath(PathJoin(c.results_dir, <<"n", "_", "s", "u", "p", "p", "r", "e", "s", "s", "i", "o", "n", "_", "l", "i", "s", "t", ".", "t", "x", "t">>), Cwd))

\* C2 amended: build_command adds exactly one -j flag of its own, from the
\* thread count; the command has one -j flag more than the configuration's own
\* text supplies, so exactly one when that text supplies none.
C2_OneJFlagBesideSupplied ==
    BuildReturned =>
        /\ CountJ(ret.value.v) = 1 + SuppliedJ(TheConfig)
        /\ SuppliedJ(TheConfig) = 0 => CountJ(ret.value.v) = 1

\* C2 witness: a command was built from a configuration whose text has no -j
C2_BuiltWithoutSuppliedJ ==
    BuildReturned /\ SuppliedJ(TheConfig) = 0 /\ TheConfig.raw.options # <<>>

\* C3 as stated: with an empty or null suppression list,
\* generate_suppression_list returns a falsy value and build_command returns a
\* command without --suppressions-list.
C3_EmptyListOmitsFlag ==
    (/\ Loaded
     /\ ret.op \in {"generate_suppression_list", "build_command"}
     /\ ~Truthy(Suppressions))
    => /\ ret.status = "returned"
       /\ ret.op = "generate_suppression_list" => ~Truthy(ret.value)
       /\ ret.op = "build_command" => ~Contains(ret.value.v, <<"-", "-", "s", "u", "p", "p", "r", "e", "s", "s", "i", "o", "n", "s", "-", "l", "i", "s", "t">>)

IsGlobal(item) == item.filename = <<>>

\* C4 as stated: a generate_suppression_list call that raises because an
\* entry names a file that is not on disk leaves every file as it was.
C4_RaiseLeavesDiskUntouched ==
    [][(/\ Loaded
        /\ ret'.op = "generate_suppression_list"
        /\ ret'.status = "raised"
        /\ ret'.exc = "RuntimeError"
        /\ \A k \in 1..Len(Suppressions.v) : ~IsGlobal(Suppressions.v[k]))
       => fs' = fs]_vars

\* C5 as stated: for a list whose entries either name an existing file or no
\* file at all, generate_suppression_list returns, and each entry without a
\* file has the line <error_id> in the list.
C5_BlankFilenameSuppressesGlobally ==
    (/\ Loaded
     /\ ret.op = "generate_suppression_list"
     /\ Truthy(Suppressions)
     /\ \E k \in 1..Len(Suppressions.v) : IsGlobal(Suppressions.v[k])
     /\ \A k \in 1..Len(Suppressions.v) :
          IsGlobal(Suppressions.v[k]) \/ IsFile(fs, ExpandVars(Suppressions.v[k].filename)))
    => /\ ret.status = "returned"
       /\ \A k \in 1..Len(Suppressions.v) :
            IsGlobal(Suppressions.v[k]) =>
                \E i \in 1..Len(Lines(fs[SuppressionFile])) :
                    Lines(fs[SuppressionFile])[i] = Suppressions.v[k].error_id.s

\* <error_id>:<filename>:<line> of an entry, its filename expanded
ClaimedLine(item) ==
    Format(item.error_id) \o <<":">> \o ExpandVars(item.filename) \o <<":">> \o Format(item.line)

\* C6 as stated: the list generate_suppression_list wrote holds, for each
\* entry in turn, the two lines `// <comment>` and
\* `<error_id>:<filename>:<line>`, and no other line.
C6_TwoLinesPerEntry ==
    GenerateReturned =>
        /\ Len(Lines(fs[SuppressionFile])) = 2 * Len(Suppressions.v)
        /\ \A k \in 1..Len(Suppressions.v) :
             /\ Lines(fs[SuppressionFile])[2 * k - 1] = <<"/", "/", " ">> \o Suppressions.v[k].comment
             /\ Lines(fs[SuppressionFile])[2 * k] = ClaimedLine(Suppressions.v[k])

\* C6 amended: the list holds, for each entry in turn, three lines:
\* `// <comment>`, then `<error_id>:<filename>:<line>` (without its last colon
\* when the line number is blank), then an empty line; n entries give exactly
\* 3n lines.
C6_ThreeLinesPerEntry ==
    GenerateReturned =>
        /\ Len(Lines(fs[SuppressionFile])) = 3 * Len(Suppressions.v)
        /\ \A k \in 1..Len(Suppressions.v) :
             /\ Lines(fs[SuppressionFile])[3 * k - 2] = <<"/", "/", " ">> \o Suppressions.v[k].comment
             /\ Lines(fs[SuppressionFile])[3 * k - 1] \o
                    (IF Format(Suppressions.v[k].line) = <<>> THEN <<":">> ELSE <<>>)
                = ClaimedLine(Suppressions.v[k])
             /\ Lines(fs[SuppressionFile])[3 * k] = <<>>

\* C6 witness: a list of two entries was written, the first being
\* nullPointer at line 42 with comment x
C6_TwoEntriesWritten ==
    /\ GenerateReturned
    /\ Len(Suppressions.v) = 2
    /\ Lines(fs[SuppressionFile])[1] = <<"/", "/", " ", "x">>
    /\ Lines(fs[SuppressionFile])[2] = <<"n", "u", "l", "l", "P", "o", "i", "n", "t", "e", "r", ":", "/", "w", "/", "s", "r", "c", "/", "a", ".", "c", "p", "p", ":", "4", "2">>

\* the targets of execute in order: every file, then every directory
Targets ==
    [k \in 1..Len(formatter.files) |-> <<"file", k>>]
    \o [k \in 1..Len(formatter.directories) |-> <<"directory", k>>]

\* C7: the invocations of an execute call are the first targets, in order and
\* one each; only the last of them may have written to stderr, and when it
\* has, execute has returned its exit code.
C7_StopsAtFirstStderr ==
    /\ Len(invoked) <= Len(Targets)
    /\ \A k \in 1..Len(invoked) :
         /\ <<invoked[k].kind, invoked[k].index>> = Targets[k]
         /\ k < Len(invoked) => invoked[k].stderr = <<>>
    /\ (invoked # <<>> /\ invoked[Len(invoked)].stderr # <<>>) =>
         /\ pc = "returned"
         /\ result = invoked[Len(invoked)].rc

\* C7 witness: execute stopped at the second of four targets and returned 2
C7_StoppedEarly ==
    /\ pc = "returned"
    /\ Len(Targets) = 4
    /\ Len(invoked) = 2
    /\ invoked[2].stderr # <<>>
    /\ result = 2

\* C8 as stated: when an invocation of the formatter exited with a nonzero
\* code, execute does not return 0.
C8_NonzeroExitIsReturned ==
    (pc = "returned" /\ \E k \in 1..Len(invoked) : invoked[k].rc # 0) => result # 0

\* C9: while a run of the analyzer has completed, <name>_log.txt holds exactly
\* the stdout and <name>_err.txt exactly the stderr of the last such run, and
\* the execute call that ran it returned its exit code.
C9_LogsHoldLastRun ==
    lastRun.ran =>
        /\ fs[AbsPath(LogFile(TheConfig))] = lastRun.out
        /\ fs[AbsPath(ErrFile(TheConfig))] = lastRun.err
        /\ (ret.op = "execute" /\ ret.procs = 1) => ret.code = lastRun.rc

\* C9 witness: a run that printed OK and exited 0 replaced an earlier log
C9_LogReplaced ==
    /\ lastRun.ran
    /\ lastRun.replaced
    /\ lastRun.out = <<"O", "K">>
    /\ ret.op = "execute"
    /\ ret.code = 0
    /\ fs[AbsPath(LogFile(TheConfig))] = <<"O", "K">>

\* C10 as stated: reading version when the tool printed nothing returns
\* 'unknown'.
C10_EmptyVersionIsUnknown ==
    (ret.op = "version" /\ ret.stdout = <<>>) =>
        /\ ret.status = "returned"
        /\ ret.value = Some(<<"u", "n", "k", "n", "o", "w", "n">>)


\* an entry of the loaded list names a file that is not on disk
HasMissingFile ==
    /\ Truthy(Suppressions)
    /\ \E k \in 1..Len(Suppressions.v) :
         /\ ~IsGlobal(Suppressions.v[k])
         /\ ~IsFile(fs, ExpandVars(Suppressions.v[k].filename))

\* C11 as stated: a call of execute on a configuration with an entry whose
\* file is missing raises having started no process, and every call of execute
\* that raises nothing has started the analyzer exactly once.
C11_EveryReturnStartsOnce ==
    [][\A config \in ConfigArgs, working_dir \in WorkingDirs, run \in AnalyzerRuns :
         Execute(config, working_dir, run) =>
            /\ (config = ConfigName /\ Loaded /\ HasMissingFile) =>
                  ret'.status = "raised" /\ ret'.procs = 0
            /\ ret'.status = "returned" => ret'.procs = 1]_vars

\* C11 amended: a call of execute on a loaded configuration that raises has
\* started no process and recorded no analyzer run, and it does raise when an
\* entry's file is missing; a call on a loaded configuration that returns has
\* started the analyzer exactly once, with the command build_command gave. A
\* call naming a configuration that is not loaded returns 0 and starts nothing.
C11_LoadedRunStartsOnce ==
    [][\A config \in ConfigArgs, working_dir \in WorkingDirs, run \in AnalyzerRuns :
         Execute(config, working_dir, run) =>
            IF config \in DOMAIN configurations THEN
                /\ HasMissingFile => ret'.status = "raised"
                /\ ret'.status = "raised" => ret'.procs = 0 /\ lastRun' = lastRun
                /\ ret'.status = "returned" =>
                      /\ ret'.procs = 1
                      /\ lastRun'.ran
                      /\ lastRun'.rc = run.rc /\ lastRun'.out = run.out
                      /\ StartsWith(lastRun'.command, CppcheckExe \o <<" ">>)
            ELSE
                /\ ret'.status = "returned"
                /\ ret'.code = 0 /\ ret'.procs = 0
                /\ lastRun' = lastRun /\ fs' = fs]_vars

\* C11 witness: execute raised on a list that names a missing file, having
\* started no process
C11_RaisedOnMissingFile ==
    /\ Loaded
    /\ HasMissingFile
    /\ ret.op = "execute"
    /\ ret.status = "raised"
    /\ ret.exc = "RuntimeError"
    /\ ret.procs = 0
    /\ ~lastRun.ran

=============================================================================
